---- MODULE Spec2Model ----
(***************************************************************************)
(* Verification model of node-fs-methods.                                  *)
(*                                                                         *)
(*  Part I  : the EMFILE/ENFILE retry queue of lib/fs/gracefull-fs.mjs     *)
(*            (queue, retryTimer, enqueue, scheduleRetry, resetQueue,      *)
(*            retryQueue, wrapWithRetry).                                  *)
(*  Part II : the synchronous recursive copy engine (copySync and its      *)
(*            helpers).                                                    *)
(*                                                                         *)
(* Times are integer milliseconds as returned by Date.now().  The factor   *)
(* 1.2 of the backoff is kept exact by carrying the threshold in tenths of *)
(* a millisecond.                                                          *)
(***************************************************************************)
EXTENDS Integers, Sequences, FiniteSets, TLC

(***************************************************************************)
(* Bounds of the model.                                                    *)
(***************************************************************************)
MaxCalls == 2
MaxTicks == 2
MaxAttempts == 3
StartClock == 100000

(***************************************************************************)
(* Program constants.                                                      *)
(***************************************************************************)
DEADLINE == 60000
DelayCap10 == 1000
DelayFactor10 == 12
FdValue == 3

\* The value a JavaScript arithmetic expression takes when an operand is
\* not a number (a path string or a function coerced by "-").
NaN == -1

Calls == 1..MaxCalls
TickSteps == {1, 100, DEADLINE}
Exhausted == {"EMFILE", "ENFILE"}
Outcomes == {"ok", "EMFILE", "ENFILE", "EIO"}
FirstArgs == {"path", "fd", "undefined"}
\* the shapes of argument list a wrapped function is called with:
\* <<first argument, whether the last argument is a callback>>
ArgLists == {<<"path", TRUE>>, <<"fd", TRUE>>, <<"undefined", TRUE>>, <<"path", FALSE>>}

VARIABLES
  clock,       \* Date.now()
  ticks,       \* number of clock advances taken so far
  queue,       \* the module-level queue of retry entries
  retryTimer,  \* TRUE iff a setTimeout handle is stored in retryTimer
  timers,      \* number of setTimeout callbacks scheduled and not yet run
  passes,      \* number of timer callbacks (drain passes) started and not finished
  passPc,      \* position of the timer callback / retryQueue generator
  started,     \* number of wrapped calls made so far
  calls,       \* per wrapped call: its closure (args, cb, attempt) and history
  fs,          \* the file system: location -> entry
  stack,       \* copySync's call stack: the copyDir loops in progress
  opts,        \* the options object handed to the first copySync call
  privileged,  \* TRUE iff the process may write into any directory (root)
  phase,       \* "off", "ready", "copying", "done"
  run,         \* which invocation of copySync this is (1 or 2)
  err,         \* the error thrown out of copySync, "none" if none
  visited,     \* the entries getStats has dispatched in this invocation
  fs0,         \* the file system before the first invocation
  fs1,         \* the file system after the first invocation
  patch        \* the call of a function patched by patchFs, and its outcome

retryVars == <<clock, ticks, queue, retryTimer, timers, passes, passPc, started, calls>>

copyVars == <<fs, stack, opts, privileged, phase, run, err, visited, fs0, fs1>>

patchVars == <<patch>>

vars == <<clock, ticks, queue, retryTimer, timers, passes, passPc, started, calls,
          fs, stack, opts, privileged, phase, run, err, visited, fs0, fs1, patch>>

(***************************************************************************)
(* JavaScript number semantics with NaN.                                   *)
(***************************************************************************)
Minus(a, b) == IF a = NaN \/ b = NaN THEN NaN ELSE a - b
Times(k, a) == IF a = NaN THEN NaN ELSE k * a
\* a >= b : false whenever an operand is NaN
GE(a, b) == a # NaN /\ b # NaN /\ a >= b
\* Math.max / Math.min : NaN whenever an operand is NaN
MathMax(a, b) == IF a = NaN \/ b = NaN THEN NaN ELSE IF a >= b THEN a ELSE b
MathMin(a, b) == IF a = NaN \/ b = NaN THEN NaN ELSE IF a <= b THEN a ELSE b

Inc(n) == IF n < MaxAttempts THEN n + 1 ELSE n

(***************************************************************************)
(* retryQueue, lines 61-65: the values computed for the entry examined.    *)
(***************************************************************************)
sinceAttempt(e, now) == Minus(now, e.lastTime)
sinceStart(e) == MathMax(Minus(e.lastTime, e.startTime), 1)
\* delay in tenths of a millisecond: Math.min(sinceStart * 1.2, 100)
delay10(e) == MathMin(Times(DelayFactor10, sinceStart(e)), DelayCap10)
TimedOut(e, now) == GE(Minus(now, e.startTime), DEADLINE)
Due(e, now) == GE(Times(10, sinceAttempt(e, now)), delay10(e))

(***************************************************************************)
(* attempt(startTime = Date.now()): the value bound to the parameter when  *)
(* retryQueue calls fn(...args, startTime) with args = [...args, cb].      *)
(* The first positional value is the first original argument.              *)
(***************************************************************************)
RetryStartTime(firstArg, now) ==
  CASE firstArg = "path"      -> NaN
    [] firstArg = "fd"        -> FdValue
    [] firstArg = "undefined" -> now

\* a wrapper that retried every failure, not only EMFILE/ENFILE
IsExhaustedAnyError(code) == code # "ok"

IsExhausted(code) == code \in Exhausted

NoCall == [firstArg |-> "path", cb |-> FALSE, inflight |-> FALSE,
           startTime |-> 0, attempts |-> 0, since |-> 0,
           cbCount |-> 0, cbArg |-> "none", okAt |-> 0,
           lastOut |-> "none", delay |-> 0,
           attemptedAt |-> 0, seen |-> FALSE]

(***************************************************************************)
(* Part II, data: the file system seen by copySync.                        *)
(*                                                                         *)
(* A location is <<area, relative path>>: the source tree is area "src",   *)
(* the destination tree is area "dst" (same relative paths), and "par" is  *)
(* path.dirname(dest).                                                     *)
(***************************************************************************)
RelPaths == {<<>>, <<"x">>, <<"y">>, <<"x", "z">>}
Src(p) == <<"src", p>>
Dst(p) == <<"dst", p>>
Par == <<"par", <<>>>>
Locs == {Par} \cup {Src(p) : p \in RelPaths} \cup {Dst(p) : p \in RelPaths}

\* path.join(dir, item) and path.dirname(path)
Join(loc, item) == <<loc[1], Append(loc[2], item)>>
Dirname(loc) ==
  IF loc[2] = <<>> THEN Par ELSE <<loc[1], SubSeq(loc[2], 1, Len(loc[2]) - 1)>>
IsPrefix(p, q) == Len(p) <= Len(q) /\ SubSeq(q, 1, Len(p)) = p

\* fs.Stats of an entry: type, permission bits, modification time; data is
\* the byte content of a file, target the text of a symbolic link.
NoEnt == [type |-> "none", data |-> 0, mode |-> 0, target |-> <<>>, mtime |-> 0]
File(data, mode, mtime) ==
  [type |-> "file", data |-> data, mode |-> mode, target |-> <<>>, mtime |-> mtime]
Dir(mode) == [type |-> "dir", data |-> 0, mode |-> mode, target |-> <<>>, mtime |-> 0]
Link(target) ==
  [type |-> "link", data |-> 0, mode |-> 511, target |-> target, mtime |-> 0]
Special(type) == [type |-> type, data |-> 0, mode |-> 420, target |-> <<>>, mtime |-> 0]

\* srcStat.isFile() || srcStat.isCharacterDevice() || srcStat.isBlockDevice()
FileLike == {"file", "chardev", "blockdev"}

\* the owner-write permission bit 0o200
OwnerWrite == 128
HasOwnerWrite(mode) == (mode \div OwnerWrite) % 2 = 1

\* link targets: absolute paths outside both trees.  /t is an empty
\* directory, /v a file, and /t/u does not exist.
T1 == <<"/", "t">>
T2 == <<"/", "t", "u">>
T3 == <<"/", "v">>
Targets == {T1, T2, T3}
TargetNode(t) ==
  IF t = T1 THEN Dir(493) ELSE IF t = T3 THEN File(3, 416, 1) ELSE NoEnt

\* the options object as the caller writes it; "unset" is an absent key
DefaultOpts ==
  [clobber |-> "unset", overwrite |-> "unset", errorOnExist |-> FALSE,
   preserveTimestamps |-> FALSE, dereference |-> FALSE,
   hasFilter |-> FALSE, reject |-> {}]

CopyOff ==
  /\ fs = [l \in Locs |-> NoEnt]
  /\ stack = <<>>
  /\ opts = DefaultOpts
  /\ privileged = FALSE
  /\ phase = "off"
  /\ run = 0
  /\ err = "none"
  /\ visited = {}
  /\ fs0 = fs
  /\ fs1 = fs

RetryInit ==
  /\ clock = StartClock
  /\ ticks = 0
  /\ queue = <<>>
  /\ retryTimer = FALSE
  /\ timers = 0
  /\ passes = 0
  /\ passPc = "idle"
  /\ started = 0
  /\ calls = [c \in Calls |-> NoCall]

\* no patched function has been called
PatchOff ==
  patch = [phase |-> "off", name |-> "chown", form |-> "callback", code |-> "ok",
           uid |-> 0, hasCb |-> FALSE, reported |-> "none", cbCount |-> 0,
           attempts |-> 0, issued |-> 0]

Init == RetryInit /\ CopyOff /\ PatchOff

InQueue(c) == \E i \in 1..Len(queue) : queue[i].call = c

\* Code outside the drain loop (callers, completions) runs only while the
\* generator is not executing its synchronous loop body.
UserCodeMayRun == passPc # "loop"

(***************************************************************************)
(* Date.now() advances.                                                    *)
(***************************************************************************)
Tick(d) ==
  /\ ticks < MaxTicks
  /\ clock' = clock + d
  /\ ticks' = ticks + 1
  /\ UNCHANGED <<queue, retryTimer, timers, passes, passPc, started, calls>>
  /\ UNCHANGED copyVars
  /\ UNCHANGED patchVars

(***************************************************************************)
(* wrapWithRetry(fn)(...args): detach cb, define attempt, call attempt().  *)
(***************************************************************************)
wrapWithRetry(c, fa, hasCb) ==
  /\ UserCodeMayRun
  /\ c = started + 1
  /\ started' = c
  /\ calls' = [calls EXCEPT ![c] =
        [NoCall EXCEPT !.firstArg = fa, !.cb = hasCb,
                       !.inflight = TRUE, !.startTime = clock,
                       !.attempts = 1, !.since = clock]]
  /\ UNCHANGED <<clock, ticks, queue, retryTimer, timers, passes, passPc>>
  /\ UNCHANGED copyVars
  /\ UNCHANGED patchVars

(***************************************************************************)
(* The completion callback that attempt hands to fn (lines 92-98).         *)
(***************************************************************************)
\* a scheduleRetry that sets a new timeout although one is pending
scheduleRetryUnguarded(handle, pending) ==
  [retryTimer |-> TRUE, timers |-> pending + 1]

\* a scheduleRetry that never sets a timeout
scheduleRetryNever(handle, pending) ==
  [retryTimer |-> handle, timers |-> pending]

\* scheduleRetry (lines 32-39): if (retryTimer) return; retryTimer = setTimeout(...)
scheduleRetry(handle, pending) ==
  IF handle THEN [retryTimer |-> handle, timers |-> pending]
            ELSE [retryTimer |-> TRUE, timers |-> pending + 1]

\* an enqueue that pushed the entry twice
enqueueTwice(q, entry) == Append(Append(q, entry), entry)

enqueue(q, entry) == Append(q, entry)

CompletedCall(cl, out) ==
  [cl EXCEPT !.inflight = FALSE, !.lastOut = out,
             !.okAt = IF out = "ok" THEN cl.attempts ELSE @]

Delivered(cl, out) ==
  IF cl.cb
    THEN [cl EXCEPT !.cbCount = Inc(@), !.cbArg = out]
    ELSE cl

attemptCallback(c, out) ==
  /\ UserCodeMayRun
  /\ calls[c].inflight
  /\ IF IsExhausted(out)
       THEN /\ queue' = enqueue(queue, [call |-> c, err |-> out,
                                        startTime |-> calls[c].startTime,
                                        lastTime |-> clock])
            /\ retryTimer' = scheduleRetry(retryTimer, timers).retryTimer
            /\ timers' = scheduleRetry(retryTimer, timers).timers
            /\ calls' = [calls EXCEPT ![c] =
                  [CompletedCall(@, out) EXCEPT !.attemptedAt = clock, !.seen = FALSE]]
       ELSE /\ calls' = [calls EXCEPT ![c] = Delivered(CompletedCall(@, out), out)]
            /\ UNCHANGED <<queue, retryTimer, timers>>
  /\ UNCHANGED <<clock, ticks, passes, passPc, started>>
  /\ UNCHANGED copyVars
  /\ UNCHANGED patchVars

(***************************************************************************)
(* scheduleRetry's timer callback (lines 34-38).                           *)
(***************************************************************************)
\* The timer callback is a macrotask: it starts only when no microtask of
\* a running pass is pending (every await of the pass is on a settled value).
TimerFire ==
  /\ timers > 0
  /\ passPc = "idle"
  /\ retryTimer' = FALSE
  /\ timers' = timers - 1
  /\ passes' = passes + 1
  /\ passPc' = "loop"
  /\ calls' = [c \in Calls |-> [calls[c] EXCEPT !.seen = FALSE]]
  /\ UNCHANGED <<clock, ticks, queue, started>>
  /\ UNCHANGED copyVars
  /\ UNCHANGED patchVars

\* a generator that stayed suspended until the retried operation completed
ResumeAfterCompletion ==
  /\ passPc = "yield"
  /\ \A c \in Calls : ~calls[c].inflight
  /\ passPc' = "loop"
  /\ UNCHANGED <<clock, ticks, queue, retryTimer, timers, passes, started, calls>>
  /\ UNCHANGED copyVars
  /\ UNCHANGED patchVars

\* for await: the generator is resumed after a yield, or after the
\* completion callback of an abandoned entry returned.
Resume ==
  /\ passPc = "yield"
  /\ passPc' = "loop"
  /\ UNCHANGED <<clock, ticks, queue, retryTimer, timers, passes, started, calls>>
  /\ UNCHANGED copyVars
  /\ UNCHANGED patchVars

\* while (queue.length) is false: the generator returns.
PassEnd ==
  /\ passPc = "loop"
  /\ queue = <<>>
  /\ passPc' = "end"
  /\ UNCHANGED <<clock, ticks, queue, retryTimer, timers, passes, started, calls>>
  /\ UNCHANGED copyVars
  /\ UNCHANGED patchVars

\* line 37: if (queue.length) scheduleRetry()
PassFinish ==
  /\ passPc = "end"
  /\ passPc' = "idle"
  /\ passes' = passes - 1
  /\ IF queue # <<>>
       THEN /\ retryTimer' = scheduleRetry(retryTimer, timers).retryTimer
            /\ timers' = scheduleRetry(retryTimer, timers).timers
       ELSE UNCHANGED <<retryTimer, timers>>
  /\ UNCHANGED <<clock, ticks, queue, started, calls>>
  /\ UNCHANGED copyVars
  /\ UNCHANGED patchVars

(***************************************************************************)
(* retryQueue: one iteration of the while loop (lines 60-79).              *)
(***************************************************************************)
Examined(cl, e) ==
  [cl EXCEPT !.delay = delay10(e), !.seen = TRUE]

Abandon ==
  /\ passPc = "loop"
  /\ queue # <<>>
  /\ LET e == Head(queue)
         c == e.call
     IN /\ TimedOut(e, clock)
        /\ queue' = Tail(queue)
        /\ calls' = [calls EXCEPT ![c] =
              IF @.cb
                THEN [Examined(@, e) EXCEPT !.cbCount = Inc(@), !.cbArg = e.err]
                ELSE Examined(@, e)]
        /\ passPc' = IF calls[c].cb THEN "yield" ELSE "loop"
  /\ UNCHANGED <<clock, ticks, retryTimer, timers, passes, started>>
  /\ UNCHANGED copyVars
  /\ UNCHANGED patchVars

\* a loop body that read the head entry without removing it before retrying
RetryKeepsEntry ==
  /\ passPc = "loop"
  /\ queue # <<>>
  /\ LET e == Head(queue)
         c == e.call
     IN /\ ~TimedOut(e, clock)
        /\ Due(e, clock)
        /\ queue' = queue
        /\ calls' = [calls EXCEPT ![c] =
              [Examined(@, e) EXCEPT
                 !.inflight = TRUE,
                 !.attempts = Inc(@),
                 !.startTime = RetryStartTime(calls[c].firstArg, clock)]]
        /\ passPc' = "yield"
  /\ UNCHANGED <<clock, ticks, retryTimer, timers, passes, started>>
  /\ UNCHANGED copyVars
  /\ UNCHANGED patchVars

Retry ==
  /\ passPc = "loop"
  /\ queue # <<>>
  /\ LET e == Head(queue)
         c == e.call
     IN /\ ~TimedOut(e, clock)
        /\ Due(e, clock)
        /\ queue' = Tail(queue)
        /\ calls' = [calls EXCEPT ![c] =
              [Examined(@, e) EXCEPT
                 !.inflight = TRUE,
                 !.attempts = Inc(@),
                 !.startTime = RetryStartTime(calls[c].firstArg, clock)]]
        /\ passPc' = "yield"
  /\ UNCHANGED <<clock, ticks, retryTimer, timers, passes, started>>
  /\ UNCHANGED copyVars
  /\ UNCHANGED patchVars

Defer ==
  /\ passPc = "loop"
  /\ queue # <<>>
  /\ LET e == Head(queue)
         c == e.call
     IN /\ ~TimedOut(e, clock)
        /\ ~Due(e, clock)
        /\ queue' = Append(Tail(queue), [e EXCEPT !.lastTime = clock])
        /\ calls' = [calls EXCEPT ![c] = Examined(@, e)]
  /\ UNCHANGED <<clock, ticks, retryTimer, timers, passes, passPc, started>>
  /\ UNCHANGED copyVars
  /\ UNCHANGED patchVars

(***************************************************************************)
(* resetQueue (lines 44-53).                                               *)
(***************************************************************************)
\* a reset that refreshed job[4] only
resetQueueKeepsStart ==
  /\ UserCodeMayRun
  /\ queue' = [i \in 1..Len(queue) |-> [queue[i] EXCEPT !.lastTime = clock]]
  /\ calls' = [c \in Calls |->
                 IF InQueue(c) THEN [calls[c] EXCEPT !.attemptedAt = clock]
                               ELSE calls[c]]
  /\ retryTimer' = scheduleRetry(retryTimer, timers).retryTimer
  /\ timers' = scheduleRetry(retryTimer, timers).timers
  /\ UNCHANGED <<clock, ticks, passes, passPc, started>>
  /\ UNCHANGED copyVars
  /\ UNCHANGED patchVars

resetQueue ==
  /\ UserCodeMayRun
  /\ queue' = [i \in 1..Len(queue) |->
                 [queue[i] EXCEPT !.startTime = clock, !.lastTime = clock]]
  /\ calls' = [c \in Calls |->
                 IF InQueue(c)
                   THEN [calls[c] EXCEPT !.since = clock, !.delay = 0,
                                         !.attemptedAt = clock]
                   ELSE calls[c]]
  /\ retryTimer' = scheduleRetry(retryTimer, timers).retryTimer
  /\ timers' = scheduleRetry(retryTimer, timers).timers
  /\ UNCHANGED <<clock, ticks, passes, passPc, started>>
  /\ UNCHANGED copyVars
  /\ UNCHANGED patchVars

Next ==
  \/ \E d \in TickSteps : Tick(d)
  \/ \E c \in Calls, a \in ArgLists : wrapWithRetry(c, a[1], a[2])
  \/ \E c \in Calls, out \in Outcomes : attemptCallback(c, out)
  \/ TimerFire
  \/ Resume
  \/ PassEnd
  \/ PassFinish
  \/ Abandon
  \/ Retry
  \/ Defer
  \/ resetQueue

Spec == Init /\ [][Next]_vars

(***************************************************************************)
(* Part II: copySync and its helpers.                                      *)
(*                                                                         *)
(* A helper takes the file system f and returns a result                   *)
(*   [fs |-> the file system after it, err |-> what it threw or "none",    *)
(*    frame |-> the copyDir loop it opened, as a sequence of 0 or 1 frame].*)
(***************************************************************************)
Ok(f) == [fs |-> f, err |-> "none", frame |-> <<>>]
Throw(f, e) == [fs |-> f, err |-> e, frame |-> <<>>]

\* copySync lines 27-29: defaults of clobber and overwrite
Normalise(raw) ==
  LET clobber == IF raw.clobber = "unset" THEN TRUE ELSE raw.clobber = "true"
      overwrite == IF raw.overwrite = "unset" THEN clobber ELSE raw.overwrite = "true"
  IN [overwrite |-> overwrite, errorOnExist |-> raw.errorOnExist,
      preserveTimestamps |-> raw.preserveTimestamps,
      dereference |-> raw.dereference,
      hasFilter |-> raw.hasFilter, reject |-> raw.reject]

\* the options of the current call: the second call repeats the first
\* with overwrite: true
CallOpts == IF run = 2 THEN [opts EXCEPT !.overwrite = "true"] ELSE opts

\* a copy that never consulted the filter
FilterIgnored(o, src, dest) == FALSE

\* opts.filter && !opts.filter(src, dest)
FilterRejects(o, src, dest) == o.hasFilter /\ src[2] \in o.reject

(***************************************************************************)
(* node:fs primitives.  Creating or removing a name needs owner-write      *)
(* permission on the containing directory unless the process is privileged.*)
(***************************************************************************)
CanWrite(f, loc) == privileged \/ HasOwnerWrite(f[Dirname(loc)].mode)
LstatSync(f, loc) == f[loc]
StatSync(f, loc) == IF f[loc].type = "link" THEN TargetNode(f[loc].target) ELSE f[loc]
unlinkSync(f, loc) == [f EXCEPT ![loc] = NoEnt]
chmodSync(f, loc, mode) == [f EXCEPT ![loc].mode = mode]
copyFileSync(f, src, dest) ==
  [f EXCEPT ![dest] = File(StatSync(f, src).data, StatSync(f, src).mode, 2)]
symlinkSync(f, target, dest) == [f EXCEPT ![dest] = Link(target)]
mkdirSync(f, dest) == [f EXCEPT ![dest] = Dir(493)]
Names == {"x", "y", "z"}
\* fs.opendirSync(src) / dir.readSync(): the names in a directory
Children(f, src) ==
  IF f[src].type = "link" THEN {}
  ELSE {n \in Names : Join(src, n) \in Locs /\ f[Join(src, n)].type # "none"}

\* path.resolve(process.cwd(), p)
Cwd == <<"/", "cwd">>
PathResolve(p) == IF p # <<>> /\ p[1] = "/" THEN p ELSE Cwd \o p

(***************************************************************************)
(* Collaborators outside this source tree (mkdirs.js, util/stat.js,        *)
(* util/utimes.js), modelled from the specification.                       *)
(***************************************************************************)
mkdirsSync(f, dir) == [f EXCEPT ![dir] = Dir(493)]
utimesMillisSync(f, dest, mtime) == [f EXCEPT ![dest].mtime = mtime]
\* src and dest must not be the same path; returns the destination's stat
checkPathsSync(f, src, dest) ==
  [err |-> IF src = dest THEN "SamePath" ELSE "none", destStat |-> LstatSync(f, dest)]
\* isSrcSubdir(a, b): a is an ancestor of (contains) b
isSrcSubdir(a, b) == Len(a) < Len(b) /\ SubSeq(b, 1, Len(a)) = a

(***************************************************************************)
(* Files (lines 76-149).                                                   *)
(***************************************************************************)
fileIsNotWritable(srcMode) == ~HasOwnerWrite(srcMode)
setDestMode(f, dest, srcMode) == chmodSync(f, dest, srcMode)
makeFileWritable(f, dest, srcMode) ==
  setDestMode(f, dest, IF HasOwnerWrite(srcMode) THEN srcMode ELSE srcMode + OwnerWrite)
setDestTimestamps(f, src, dest) == utimesMillisSync(f, dest, StatSync(f, src).mtime)
handleTimestamps(f, srcMode, src, dest) ==
  setDestTimestamps(
    IF fileIsNotWritable(srcMode) THEN makeFileWritable(f, dest, srcMode) ELSE f,
    src, dest)

copyFile(f, srcStat, src, dest, o) ==
  IF ~CanWrite(f, dest) THEN Throw(f, "EACCES")
  ELSE LET f1 == copyFileSync(f, src, dest)
           f2 == IF o.preserveTimestamps
                   THEN handleTimestamps(f1, srcStat.mode, src, dest)
                   ELSE f1
       IN Ok(setDestMode(f2, dest, srcStat.mode))

mayCopyFile(f, srcStat, src, dest, o) ==
  IF o.overwrite
    THEN IF ~CanWrite(f, dest) THEN Throw(f, "EACCES")
         ELSE copyFile(unlinkSync(f, dest), srcStat, src, dest, o)
    ELSE IF o.errorOnExist THEN Throw(f, "AlreadyExists")
    ELSE Ok(f)

onFile(f, srcStat, destStat, src, dest, o) ==
  IF destStat.type = "none"
    THEN copyFile(f, srcStat, src, dest, o)
    ELSE mayCopyFile(f, srcStat, src, dest, o)

(***************************************************************************)
(* Directories (lines 158-191).  A frame is a copyDir loop in progress;    *)
(* created says that mkDirAndCopy made dest and still has to set its mode. *)
(***************************************************************************)
copyDir(f, src, dest, created, srcMode) ==
  [fs |-> f, err |-> "none",
   frame |-> <<[src |-> src, dest |-> dest, todo |-> Children(f, src),
                created |-> created, mode |-> srcMode]>>]

\* a mkDirAndCopy that set the mode before it copied the children
mkDirAndCopyModeFirst(f, srcMode, src, dest) ==
  IF ~CanWrite(f, dest) THEN Throw(f, "EACCES")
  ELSE copyDir(setDestMode(mkdirSync(f, dest), dest, srcMode), src, dest, FALSE, srcMode)

mkDirAndCopy(f, srcMode, src, dest) ==
  IF ~CanWrite(f, dest) THEN Throw(f, "EACCES")
  ELSE copyDir(mkdirSync(f, dest), src, dest, TRUE, srcMode)

onDir(f, srcStat, destStat, src, dest, o) ==
  IF destStat.type = "none"
    THEN mkDirAndCopy(f, srcStat.mode, src, dest)
    ELSE copyDir(f, src, dest, FALSE, 0)

\* a mkDirAndCopy that returned without setting the mode of the new directory
FinishDirNoMode(f, fr) == f

\* mkDirAndCopy line 172, after copyDir returned
FinishDir(f, fr) == IF fr.created THEN setDestMode(f, fr.dest, fr.mode) ELSE f

(***************************************************************************)
(* Symbolic links (lines 213-255).                                         *)
(***************************************************************************)
symlink(f, target, dest) ==
  IF f[dest].type # "none" THEN Throw(f, "EEXIST")
  ELSE IF ~CanWrite(f, dest) THEN Throw(f, "EACCES")
  ELSE Ok(symlinkSync(f, target, dest))

copyLink(f, resolvedSrc, dest) ==
  IF ~CanWrite(f, dest) THEN Throw(f, "EACCES")
  ELSE symlink(unlinkSync(f, dest), resolvedSrc, dest)

\* an onLink without the second containment test
onLinkNoOverwriteCheck(f, destStat, src, dest, o) ==
  LET target == f[src].target
      resolvedSrc == IF o.dereference THEN PathResolve(target) ELSE target
  IN IF destStat.type = "none" THEN symlink(f, resolvedSrc, dest)
     ELSE IF f[dest].type # "link" THEN symlink(f, resolvedSrc, dest)
     ELSE LET destTarget == f[dest].target
              resolvedDest == IF o.dereference THEN PathResolve(destTarget)
                                               ELSE destTarget
          IN IF isSrcSubdir(resolvedSrc, resolvedDest) THEN Throw(f, "SelfCopy")
             ELSE copyLink(f, resolvedSrc, dest)

onLink(f, destStat, src, dest, o) ==
  LET target == f[src].target
      resolvedSrc == IF o.dereference THEN PathResolve(target) ELSE target
  IN IF destStat.type = "none" THEN symlink(f, resolvedSrc, dest)
     ELSE IF f[dest].type # "link"
       \* readlinkSync(dest) throws EINVAL: dest is not a symbolic link
       THEN symlink(f, resolvedSrc, dest)
     ELSE LET destTarget == f[dest].target
              resolvedDest == IF o.dereference THEN PathResolve(destTarget)
                                               ELSE destTarget
          IN IF isSrcSubdir(resolvedSrc, resolvedDest) THEN Throw(f, "SelfCopy")
             ELSE IF isSrcSubdir(resolvedDest, resolvedSrc)
               THEN Throw(f, "OverwriteConflict")
             ELSE copyLink(f, resolvedSrc, dest)

(***************************************************************************)
(* getStats (lines 54-67).                                                 *)
(***************************************************************************)
getStats(f, destStat, src, dest, o) ==
  LET srcStat == IF o.dereference THEN StatSync(f, src) ELSE LstatSync(f, src)
  IN CASE srcStat.type = "none"    -> Throw(f, "ENOENT")
       [] srcStat.type = "dir"     -> onDir(f, srcStat, destStat, src, dest, o)
       [] srcStat.type \in FileLike -> onFile(f, srcStat, destStat, src, dest, o)
       [] srcStat.type = "link"    -> onLink(f, destStat, src, dest, o)
       [] srcStat.type = "socket"  -> Throw(f, "UnsupportedEntryType")
       [] srcStat.type = "fifo"    -> Throw(f, "UnsupportedEntryType")
       [] OTHER                    -> Throw(f, "UnknownEntryType")

(***************************************************************************)
(* The steps of one invocation.                                            *)
(***************************************************************************)
\* a traversal that went on with the next entry after an entry had thrown
DispatchedContinues(r, rest, p) ==
  /\ fs' = r.fs
  /\ err' = r.err
  /\ stack' = r.frame \o rest
  /\ phase' = IF r.frame \o rest = <<>> THEN "done" ELSE "copying"
  /\ visited' = visited \cup {p}

\* the outcome r of dispatching entry p with the loops in rest still open
Dispatched(r, rest, p) ==
  /\ fs' = r.fs
  /\ err' = r.err
  /\ stack' = IF r.err # "none" THEN <<>> ELSE r.frame \o rest
  /\ phase' = IF r.err # "none" \/ r.frame \o rest = <<>> THEN "done" ELSE "copying"
  /\ visited' = visited \cup {p}

\* copySync (lines 22-46)
copySync ==
  /\ phase = "ready"
  /\ LET o == Normalise(CallOpts)
         src == Src(<<>>)
         dest == Dst(<<>>)
         checked == checkPathsSync(fs, src, dest)
         destParent == Dirname(dest)
     IN IF checked.err # "none"
          THEN /\ err' = checked.err
               /\ phase' = "done"
               /\ UNCHANGED <<fs, stack, visited>>
        ELSE IF FilterRejects(o, src, dest)
          THEN /\ phase' = "done"
               /\ UNCHANGED <<fs, stack, err, visited>>
        ELSE Dispatched(
               getStats(IF fs[destParent].type = "none"
                          THEN mkdirsSync(fs, destParent) ELSE fs,
                        checked.destStat, src, dest, o),
               <<>>, <<>>)
  /\ UNCHANGED <<opts, privileged, run, fs0, fs1>>
  /\ UNCHANGED retryVars
  /\ UNCHANGED patchVars

\* copyDir's loop body: dir.readSync() returned item; copyDirItem (lines 199-205)
copyDirItem(item) ==
  /\ phase = "copying"
  /\ stack # <<>>
  /\ item \in Head(stack).todo
  /\ LET o == Normalise(CallOpts)
         top == Head(stack)
         rest == <<[top EXCEPT !.todo = @ \ {item}]>> \o Tail(stack)
         srcItem == Join(top.src, item)
         destItem == Join(top.dest, item)
         checked == checkPathsSync(fs, srcItem, destItem)
     IN IF FilterRejects(o, srcItem, destItem)
          THEN /\ stack' = rest
               /\ UNCHANGED <<fs, err, phase, visited>>
        ELSE IF checked.err # "none"
          THEN /\ err' = checked.err
               /\ stack' = <<>>
               /\ phase' = "done"
               /\ UNCHANGED <<fs, visited>>
        ELSE Dispatched(getStats(fs, checked.destStat, srcItem, destItem, o),
                        rest, srcItem[2])
  /\ UNCHANGED <<opts, privileged, run, fs0, fs1>>
  /\ UNCHANGED retryVars
  /\ UNCHANGED patchVars

\* dir.readSync() returned null: copyDir returns, mkDirAndCopy sets the mode
copyDirEnd ==
  /\ phase = "copying"
  /\ stack # <<>>
  /\ Head(stack).todo = {}
  /\ fs' = FinishDir(fs, Head(stack))
  /\ stack' = Tail(stack)
  /\ phase' = IF Tail(stack) = <<>> THEN "done" ELSE "copying"
  /\ UNCHANGED <<opts, privileged, run, err, visited, fs0, fs1>>
  /\ UNCHANGED retryVars
  /\ UNCHANGED patchVars

\* the caller copies the same source to the same destination again,
\* this time with overwrite: true
copyAgain ==
  /\ phase = "done"
  /\ run = 1
  /\ err = "none"
  /\ run' = 2
  /\ phase' = "ready"
  /\ fs1' = fs
  /\ visited' = {}
  /\ UNCHANGED <<fs, stack, opts, privileged, err, fs0>>
  /\ UNCHANGED retryVars
  /\ UNCHANGED patchVars

(***************************************************************************)
(* The calls the model makes: source trees, destinations and options.      *)
(***************************************************************************)
RootKinds ==
  {Dir(493), Dir(365), File(1, 420, 1), File(1, 292, 1), Special("fifo")}
    \cup {Link(t) : t \in Targets}
XKinds == {NoEnt, File(1, 420, 1), File(1, 292, 1), Dir(493), Dir(365)}
YKinds == {NoEnt, File(1, 420, 1), Special("fifo"), Special("socket"),
            Special("unknown")}
            \cup {Link(t) : t \in Targets}
ZKinds == {NoEnt, File(1, 420, 1)}

Tree(r, x, y, z) ==
  [p \in RelPaths |->
     CASE p = <<>>         -> r
       [] p = <<"x">>      -> x
       [] p = <<"y">>      -> y
       [] p = <<"x", "z">> -> z]

SrcTrees ==
  {t \in {Tree(r, x, y, z) : r \in RootKinds, x \in XKinds, y \in YKinds, z \in ZKinds} :
     /\ t[<<>>].type # "dir" => (t[<<"x">>] = NoEnt /\ t[<<"y">>] = NoEnt)
     /\ t[<<"x">>].type # "dir" => t[<<"x", "z">>] = NoEnt}

\* what is at the destination before the first call
DestStates == {"absent", "parent", "root", "mirror"}
NotALink == <<"notalink">>
DestLinkKinds == Targets \cup {NotALink}

\* an existing destination entry for source entry n: same kind, other
\* content, other mode; dk says what sits where the source has a link
Mirror(n, dk) ==
  CASE n.type = "dir"      -> Dir(448)
    [] n.type \in FileLike -> File(2, 384, 0)
    [] n.type = "link"     -> IF dk = NotALink THEN File(2, 384, 0) ELSE Link(dk)
    [] OTHER               -> NoEnt

InitialFs(tree, pre, dk) ==
  [l \in Locs |->
     IF l = Par THEN (IF pre = "absent" THEN NoEnt ELSE Dir(493))
     ELSE IF l[1] = "src" THEN tree[l[2]]
     ELSE CASE pre = "mirror" -> Mirror(tree[l[2]], dk)
            [] pre = "root"   -> IF l[2] = <<>> THEN Mirror(tree[<<>>], dk) ELSE NoEnt
            [] OTHER          -> NoEnt]

Policies ==
  {<<"unset", "unset", FALSE>>, <<"unset", "false", TRUE>>, <<"unset", "false", FALSE>>,
   <<"unset", "true", TRUE>>, <<"false", "unset", TRUE>>}
Extras == {"none", "preserveTimestamps", "dereference", "filterRoot", "filterX", "filterY"}

Options(pol, extra) ==
  [clobber |-> pol[1], overwrite |-> pol[2], errorOnExist |-> pol[3],
   preserveTimestamps |-> (extra = "preserveTimestamps"),
   dereference |-> (extra = "dereference"),
   hasFilter |-> (extra \in {"filterRoot", "filterX", "filterY"}),
   reject |-> CASE extra = "filterRoot" -> {<<>>}
                [] extra = "filterX"    -> {<<"x">>}
                [] extra = "filterY"    -> {<<"y">>}
                [] OTHER                -> {}]

CopyInit ==
  /\ RetryInit
  /\ PatchOff
  /\ \E tree \in SrcTrees, pre \in DestStates, dk \in DestLinkKinds :
       fs = InitialFs(tree, pre, dk)
  /\ \E pol \in Policies, extra \in Extras : opts = Options(pol, extra)
  /\ privileged \in BOOLEAN
  /\ stack = <<>>
  /\ phase = "ready"
  /\ run = 1
  /\ err = "none"
  /\ visited = {}
  /\ fs0 = fs
  /\ fs1 = fs

CopyNext ==
  \/ copySync
  \/ \E item \in Names : copyDirItem(item)
  \/ copyDirEnd
  \/ copyAgain

CopySpec == CopyInit /\ [][CopyNext]_vars

(***************************************************************************)
(* Part III: the chown/chmod fixes installed by patchFs (lines 156-226).   *)
(*                                                                         *)
(* A call is <<name, form>>; code is what the original function reports    *)
(* ("ok", an errno code, or "nocode" for an error without a code); uid is  *)
(* process.getuid(), NoGetuid where process.getuid does not exist.         *)
(***************************************************************************)
ChownNames == {"chown", "fchown", "lchown"}
ChmodNames == {"chmod", "fchmod", "lchmod"}
Forms == {"callback", "sync"}
Codes == {"ok", "ENOSYS", "EPERM", "EINVAL", "EACCES", "ENOENT", "nocode"}
NoGetuid == -1
UserUid == 1000
Uids == {0, UserUid, NoGetuid}

\* a test that ignores EPERM and EINVAL for root as well
isIgnorableChownErrAnyUser(code, uid) ==
  code \in {"ok", "ENOSYS", "EPERM", "EINVAL"}

isIgnorableChownErr(code, uid) ==
  IF code = "ok" THEN TRUE
  ELSE IF code = "ENOSYS" THEN TRUE
  ELSE IF uid = NoGetuid \/ uid # 0 THEN code = "EPERM" \/ code = "EINVAL"
  ELSE FALSE

\* orig's callback in chownFix / chmodFix: err = null if ignorable; cb?.(err)
FixCallback(pc) ==
  [pc EXCEPT !.phase = "done",
             !.reported = IF ~pc.hasCb THEN "none"
                          ELSE IF isIgnorableChownErr(pc.code, pc.uid) THEN "ok"
                          ELSE pc.code,
             !.cbCount = IF pc.hasCb THEN @ + 1 ELSE @]

\* chownFixSync / chmodFixSync: return orig(...), or rethrow unless ignorable
FixSync(pc) ==
  [pc EXCEPT !.phase = "done",
             !.reported = IF pc.code = "ok" THEN "ok"
                          ELSE IF ~isIgnorableChownErr(pc.code, pc.uid) THEN pc.code
                          ELSE "ok"]

PatchedCall(names, form, outcome) ==
  /\ patch.phase = "called"
  /\ patch.name \in names
  /\ patch.form = form
  /\ patch' = outcome
  /\ UNCHANGED retryVars
  /\ UNCHANGED copyVars

chownFix == PatchedCall(ChownNames, "callback", FixCallback(patch))
chmodFix == PatchedCall(ChmodNames, "callback", FixCallback(patch))
chownFixSync == PatchedCall(ChownNames, "sync", FixSync(patch))
chmodFixSync == PatchedCall(ChmodNames, "sync", FixSync(patch))

\* one of the chown/chmod functions was called
FixCalled ==
  /\ \E name \in ChownNames \cup ChmodNames, form \in Forms, code \in Codes,
        uid \in Uids, hasCb \in BOOLEAN :
       /\ form = "sync" => ~hasCb
       /\ patch = [phase |-> "called", name |-> name, form |-> form, code |-> code,
                   uid |-> uid, hasCb |-> hasCb, reported |-> "none", cbCount |-> 0,
                   attempts |-> 0, issued |-> 0]

(***************************************************************************)
(* The EAGAIN retry of fs.read and fs.readSync (lines 269-296).            *)
(*                                                                         *)
(* attempts is the closure variable of that name; issued counts the calls  *)
(* of origRead / origReadSync made so far; code is the outcome of the last *)
(* of them that completed ("none" before the first completes).             *)
(***************************************************************************)
ReadRetries == 10
ReadOutcomes == {"ok", "EAGAIN", "EIO"}

\* a test that allowed one more retry
ShouldRetryOnceMore(code, attempts) == code = "EAGAIN" /\ attempts < ReadRetries + 1

\* err?.code === 'EAGAIN' && attempts++ < 10
ShouldRetry(code, attempts) == code = "EAGAIN" /\ attempts < ReadRetries

\* attempts after the test: ++ is evaluated whenever the code is EAGAIN
AfterTest(code, attempts) == IF code = "EAGAIN" THEN attempts + 1 ELSE attempts

\* the underlying read completed with out: re-issue it, or hand out to the caller
ReadCompleted(pc, out) ==
  IF ShouldRetry(out, pc.attempts)
    THEN [pc EXCEPT !.code = out, !.attempts = AfterTest(out, @), !.issued = @ + 1]
    ELSE [pc EXCEPT !.code = out, !.attempts = AfterTest(out, @),
                    !.phase = "done",
                    !.reported = IF pc.form = "sync" \/ pc.hasCb THEN out ELSE "none",
                    !.cbCount = IF pc.form = "callback" /\ pc.hasCb THEN @ + 1 ELSE @]

\* fs.read's retryingCb (lines 273-278)
retryingCb(out) == PatchedCall({"read"}, "callback", ReadCompleted(patch, out))

\* one iteration of fs.readSync's loop (lines 287-294)
readSync(out) == PatchedCall({"read"}, "sync", ReadCompleted(patch, out))

\* fs.read(fd, buffer, offset, length, position, cb) or fs.readSync(...) was
\* called and has issued the first underlying read
ReadCalled ==
  /\ \E form \in Forms, hasCb \in BOOLEAN :
       /\ form = "sync" => ~hasCb
       /\ patch = [phase |-> "called", name |-> "read", form |-> form, code |-> "none",
                   uid |-> 0, hasCb |-> hasCb, reported |-> "none", cbCount |-> 0,
                   attempts |-> 0, issued |-> 1]

PatchNext ==
  \/ chownFix
  \/ chmodFix
  \/ chownFixSync
  \/ chmodFixSync
  \/ \E out \in ReadOutcomes : retryingCb(out)
  \/ \E out \in ReadOutcomes : readSync(out)

PatchInit ==
  /\ RetryInit
  /\ CopyOff
  /\ (FixCalled \/ ReadCalled)

PatchSpec == PatchInit /\ [][PatchNext]_vars

(***************************************************************************)
(* Properties of the retry queue.                                          *)
(***************************************************************************)
Entries(c) == {i \in 1..Len(queue) : queue[i].call = c}

\* A step of retryQueue's loop body that examines the entry of call c.
Examines(c) ==
  /\ passPc = "loop"
  /\ queue # <<>>
  /\ Head(queue).call = c
  /\ <<queue, passPc, calls>>' # <<queue, passPc, calls>>

\* C1: when an attempt of a wrapped call failed with EMFILE/ENFILE and a later
\* retry (the first, or a later one) succeeds, the original callback has been
\* invoked exactly once, with the success result, and never with an error.
C1_RetrySuccessCompletesOnce ==
  \A c \in Calls :
    (calls[c].cb /\ calls[c].okAt >= 2)
      => (calls[c].cbCount = 1 /\ calls[c].cbArg = "ok")

\* C1 witness: one call completed by its first retry and another completed
\* by a later retry, after a retry that itself failed.
C1_Witness ==
  \E c, d \in Calls :
    /\ calls[c].cb /\ calls[c].okAt = 2 /\ calls[c].cbCount = 1
    /\ calls[d].cb /\ calls[d].okAt >= 3 /\ calls[d].cbCount = 1

\* C2: a call whose every attempt fails with resource exhaustion is completed
\* with an error and never stays queued forever: once 60 s have passed since
\* its first attempt (or the last reset), the drain pass that examines its
\* entry invokes the callback, once, with the last EMFILE/ENFILE error and
\* drops the entry.
C2_ExhaustedCallIsAbandoned ==
  [][\A c \in Calls :
       (Examines(c) /\ calls[c].cb /\ clock - calls[c].since >= DEADLINE)
         => /\ calls'[c].cbCount = 1
            /\ calls'[c].cbArg = Head(queue).err
            /\ Entries(c)' = {}]_vars

\* C3: an attempt that completes successfully or with an error other than
\* EMFILE/ENFILE invokes the original callback at once with that outcome and
\* leaves the queue and the scheduling handle unchanged.
C3_PassThrough ==
  [][\A c \in Calls :
       (calls[c].inflight /\ ~calls'[c].inflight /\ calls[c].cb
          /\ calls'[c].lastOut \notin Exhausted)
         => /\ calls'[c].cbCount = calls[c].cbCount + 1
            /\ calls'[c].cbArg = calls'[c].lastOut
            /\ queue' = queue
            /\ retryTimer' = retryTimer]_vars

\* C3 witness: a first attempt passed a success through while nothing was
\* queued, and a retry passed a non-exhaustion error through.
C3_Witness ==
  \E c, d \in Calls :
    /\ calls[c].cb /\ calls[c].attempts = 1 /\ calls[c].lastOut = "ok"
    /\ calls[c].cbCount = 1 /\ calls[c].cbArg = "ok"
    /\ calls[d].cb /\ calls[d].attempts = 2 /\ calls[d].lastOut = "EIO"
    /\ calls[d].cbCount = 1 /\ calls[d].cbArg = "EIO"

\* C4: the callback of a wrapped call is invoked at most once, a call has at
\* most one entry in the queue, and a call is never queued once completed.
C4_AtMostOnce ==
  \A c \in Calls :
    /\ calls[c].cbCount <= 1
    /\ Cardinality(Entries(c)) <= 1
    /\ ~(Entries(c) # {} /\ calls[c].cbCount > 0)

\* C4 witness: a call completed after a retry while another call, already
\* examined by a drain pass, is still queued.
C4_Witness ==
  \E c, d \in Calls :
    /\ calls[c].cbCount = 1 /\ calls[c].attempts >= 2
    /\ Entries(d) # {} /\ calls[d].delay # 0 /\ calls[d].cb

\* C10: at successive examinations of an entry (no reset in between) the
\* backoff threshold never decreases and never exceeds 100 ms.
C10_DelayMonotoneCapped ==
  [][\A c \in Calls :
       Examines(c)
         => /\ GE(DelayCap10, calls'[c].delay)
            /\ (calls[c].delay # 0 => GE(calls'[c].delay, calls[c].delay))]_vars

\* C11: resetQueue sets startTime and lastTime of every queued entry, whoever
\* enqueued it, to the current time; it leaves the queue's membership, order,
\* operations, arguments and errors unchanged, invokes no callback and starts
\* no attempt; afterwards a wake-up is pending (one is scheduled if none was).
C11_ResetQueue ==
  [][resetQueue =>
       /\ Len(queue') = Len(queue)
       /\ \A i \in 1..Len(queue) :
            /\ queue'[i].call = queue[i].call
            /\ queue'[i].err = queue[i].err
            /\ queue'[i].startTime = clock
            /\ queue'[i].lastTime = clock
       /\ \A c \in Calls :
            /\ calls'[c].cbCount = calls[c].cbCount
            /\ calls'[c].cbArg = calls[c].cbArg
            /\ calls'[c].firstArg = calls[c].firstArg
            /\ calls'[c].cb = calls[c].cb
            /\ calls'[c].inflight = calls[c].inflight
            /\ calls'[c].attempts = calls[c].attempts
       /\ retryTimer' /\ timers' = 1
       /\ (timers = 0 => timers' = timers + 1)
       /\ (timers > 0 => timers' = timers)]_vars

\* C11 witness: the entries of two different calls, enqueued at an earlier
\* time, both carry the time of the reset, and a wake-up is pending.
C11_Witness ==
  /\ Len(queue) = 2
  /\ queue[1].call # queue[2].call
  /\ \A i \in 1..2 :
       /\ queue[i].startTime = clock
       /\ queue[i].lastTime = clock
       /\ calls[queue[i].call].startTime # NaN
       /\ calls[queue[i].call].startTime < clock
       /\ calls[queue[i].call].startTime >= StartClock
  /\ timers = 1

\* C13: at most one drain pass is executing and at most one wake-up is
\* pending at any time, whatever callers, callbacks, completions and resets
\* do while a pass is suspended; the handle retryTimer is set exactly while a
\* wake-up is pending, and a wake-up scheduled during a pass starts its pass
\* only after the running pass has finished.
C13_OnePassOneTimer ==
  /\ passes <= 1
  /\ timers <= 1
  /\ (retryTimer <=> timers = 1)
  /\ (passes = 1 <=> passPc # "idle")

\* C13 witness: while a pass is suspended with entries still queued, a
\* wake-up scheduled during that pass is pending.
C13_Witness ==
  /\ passes = 1
  /\ passPc = "yield"
  /\ timers = 1
  /\ queue # <<>>

C15_PassExaminesOnce ==
  [][\A c \in Calls : Examines(c) => ~calls[c].seen]_vars

\* C16: an entry under its deadline is retried at the first examination at
\* which the time elapsed since its last actual attempt (attemptedAt: the
\* failure that enqueued it, or the last reset) has reached its backoff
\* threshold; earlier deferrals do not restart that measurement.
C16_DeferKeepsLastAttempt ==
  [][\A c \in Calls :
       (/\ Examines(c)
        /\ ~TimedOut(Head(queue), clock)
        /\ GE(10 * (clock - calls[c].attemptedAt), delay10(Head(queue))))
         => (calls'[c].inflight /\ Entries(c)' = {})]_vars

\* the failure of a retried attempt of call c is enqueued in this step
Reenqueues(c) ==
  /\ calls[c].inflight
  /\ calls[c].attempts >= 2
  /\ Entries(c) = {}
  /\ Entries(c)' # {}

\* C17: when a retried attempt fails again with EMFILE/ENFILE the entry
\* appended to the tail belongs to the same call, carries the new error and
\* the time of the failure as lastTime, and the same startTime as the call's
\* first entry (since: the first attempt, or the last reset of that entry).
C17_ReenqueueKeepsStart ==
  [][\A c \in Calls :
       Reenqueues(c)
         => LET e == queue'[Len(queue')]
            IN /\ Len(queue') = Len(queue) + 1
               /\ e.call = c
               /\ e.err = calls'[c].lastOut
               /\ e.lastTime = clock
               /\ e.startTime = calls[c].since]_vars

\* the drain pass drops the entry of call c in this step without retrying it
Abandons(c) ==
  /\ Examines(c)
  /\ Entries(c)' = {}
  /\ ~calls'[c].inflight

\* C18: the drain pass completes a queued call with an error only by
\* abandoning it, and abandons an entry only when at least 60000 ms have
\* passed since the call's first attempt or the last reset; the entry is
\* dropped, not retried, and the callback gets the entry's last error.
C18_AbandonOnlyAfterDeadline ==
  [][\A c \in Calls :
       /\ Abandons(c)
            => /\ clock - calls[c].since >= DEADLINE
               /\ calls[c].cb => (calls'[c].cbCount = calls[c].cbCount + 1
                                   /\ calls'[c].cbArg = Head(queue).err)
       /\ (Examines(c) /\ calls'[c].cbCount > calls[c].cbCount) => Abandons(c)]_vars

\* one step of queue bookkeeping: nothing, one shift from the head, one push
\* to the tail, a shift followed by a push of the same call's entry, or a
\* reset that keeps every entry in place
Sequential ==
  \/ queue' = queue
  \/ queue # <<>> /\ queue' = Tail(queue)
  \/ Len(queue') = Len(queue) + 1 /\ SubSeq(queue', 1, Len(queue)) = queue
  \/ /\ queue # <<>>
     /\ Len(queue') = Len(queue)
     /\ SubSeq(queue', 1, Len(queue) - 1) = Tail(queue)
     /\ queue'[Len(queue')].call = Head(queue).call
  \/ /\ Len(queue') = Len(queue)
     /\ \A i \in 1..Len(queue) : queue'[i].call = queue[i].call

\* C19: a drain pass does not wait for the completion of a retry it issued:
\* whenever the generator is suspended at its yield it can be resumed, also
\* while retried operations are in flight; and every step changes the queue
\* by one sequential operation.
C19_RetryNotAwaited ==
  [][/\ (passPc = "yield" => ENABLED Resume)
     /\ Sequential]_vars

\* C19 witness: the retried operations of two different calls, both issued
\* by the running pass, are in flight at the same time.
C19_Witness ==
  /\ passes = 1
  /\ \E c, d \in Calls :
       /\ c # d
       /\ calls[c].inflight /\ calls[c].attempts >= 2 /\ calls[c].seen
       /\ calls[d].inflight /\ calls[d].attempts >= 2 /\ calls[d].seen

(***************************************************************************)
(* Properties of the chown/chmod fixes.                                    *)
(***************************************************************************)
\* the caller learns the outcome: a sync call always, a callback call if it
\* passed a callback
Reports == patch.phase = "done" /\ (patch.form = "sync" \/ patch.hasCb)

\* C12: a patched chown/fchown/lchown/chmod/fchmod/lchmod call (callback or
\* sync) reports an underlying error as success if and only if its code is
\* ENOSYS, or the process is not root and the code is EPERM or EINVAL; any
\* other error is reported unchanged, a success stays a success, and the
\* callback runs exactly once.
C12_IgnorableErrors ==
  Reports =>
    /\ (patch.code = "ok" => patch.reported = "ok")
    /\ (patch.code # "ok" =>
          IF patch.code = "ENOSYS" \/ (patch.uid # 0 /\ patch.code \in {"EPERM", "EINVAL"})
            THEN patch.reported = "ok"
            ELSE patch.reported = patch.code)
    /\ (patch.form = "callback" => patch.cbCount = 1)

\* C12 witness: root's lchown failing with EPERM has been reported as EPERM
\* through the callback.
C12_Witness ==
  /\ Reports
  /\ patch.name = "lchown" /\ patch.form = "callback"
  /\ patch.uid = 0 /\ patch.code = "EPERM" /\ patch.reported = "EPERM"

\* C22: the patched fs.read / fs.readSync re-issues the underlying read only
\* after EAGAIN and at most 10 times (at most 11 underlying reads); the call
\* ends with the outcome of its last read, which is the first outcome other
\* than EAGAIN or the EAGAIN of the 11th read, and the callback runs exactly
\* once (readSync returns or throws once).
C22_ReadRetryBounded ==
  patch.name = "read" =>
    /\ patch.issued <= ReadRetries + 1
    /\ (patch.phase = "called" /\ patch.issued >= 2) => patch.code = "EAGAIN"
    /\ patch.phase = "called" => (patch.cbCount = 0 /\ patch.reported = "none")
    /\ patch.phase = "done" =>
         /\ patch.code = "EAGAIN" => patch.issued = ReadRetries + 1
         /\ (patch.form = "sync" \/ patch.hasCb) => patch.reported = patch.code
         /\ (patch.form = "callback" /\ patch.hasCb) => patch.cbCount = 1

\* C22 witness: eleven underlying reads all failed with EAGAIN and the
\* callback got the EAGAIN of the last one, once.
C22_Witness ==
  /\ patch.name = "read" /\ patch.form = "callback" /\ patch.hasCb
  /\ patch.phase = "done"
  /\ patch.issued = ReadRetries + 1
  /\ patch.code = "EAGAIN" /\ patch.reported = "EAGAIN"
  /\ patch.cbCount = 1

(***************************************************************************)
(* Properties of copySync.                                                 *)
(***************************************************************************)
\* the entry that getStats dispatches in this step
Dispatches(p) == p \in visited' /\ p \notin visited

\* what the caller asked for, read off the options object as written
Rejected(p) == opts.hasFilter /\ p \in opts.reject

SameEntry(a, b) ==
  /\ a.type = b.type
  /\ a.data = b.data
  /\ a.mode = b.mode
  /\ a.target = b.target

\* C5: for every entry for which the filter returns false, nothing is
\* created, replaced or modified at its destination path or beneath it, the
\* engine does not descend into it, and a filtered-out root does not even
\* cause the destination's parent directory to be created.
C5_FilteredUntouched ==
  \A p \in RelPaths :
    Rejected(p) =>
      /\ \A q \in RelPaths :
           IsPrefix(p, q) => (fs[Dst(q)] = fs0[Dst(q)] /\ q \notin visited)
      /\ (p = <<>> => fs[Par] = fs0[Par])

\* C5 witness: a finished copy whose filter rejected directory x, which has
\* a child z in the source: y was copied, nothing exists at the destination x.
C5_Witness ==
  /\ phase = "done" /\ err = "none"
  /\ Rejected(<<"x">>)
  /\ fs[Src(<<"x">>)].type = "dir" /\ fs[Src(<<"x", "z">>)].type = "file"
  /\ <<"y">> \in visited /\ fs[Dst(<<"y">>)].type = "file"
  /\ fs[Dst(<<"x">>)].type = "none" /\ fs[Dst(<<"x", "z">>)].type = "none"

\* C6: when the source entry is a file and its destination exists: with
\* overwrite the destination is removed and re-copied and ends with the
\* source's bytes and mode, even if errorOnExist is set; with overwrite off
\* and errorOnExist on the call raises AlreadyExists and the destination is
\* unchanged; with both off the entry is skipped, destination unchanged, no
\* error.
C6_OverwritePolicy ==
  [][\A p \in RelPaths :
       LET o == Normalise(CallOpts)
           srcStat == IF o.dereference THEN StatSync(fs, Src(p)) ELSE fs[Src(p)]
       IN (Dispatches(p) /\ srcStat.type \in FileLike /\ fs[Dst(p)].type # "none")
            => /\ o.overwrite =>
                    /\ err' = "none"
                    /\ fs'[Dst(p)].type = "file"
                    /\ fs'[Dst(p)].data = srcStat.data
                    /\ fs'[Dst(p)].mode = srcStat.mode
               /\ (~o.overwrite /\ o.errorOnExist) =>
                    (err' = "AlreadyExists" /\ fs'[Dst(p)] = fs[Dst(p)])
               /\ (~o.overwrite /\ ~o.errorOnExist) =>
                    (err' = "none" /\ fs'[Dst(p)] = fs[Dst(p)])]_vars

PlainTree == \A p \in RelPaths : fs0[Src(p)].type \in {"none", "file", "dir"}
DestAbsent == \A p \in RelPaths : fs0[Dst(p)].type = "none"

\* C7: for a source tree of directories and regular files, no filter and no
\* destination, after copy returns without error every source directory and
\* file has a counterpart at the same relative path, files with the same
\* bytes, files and directories with the same permission bits, and the
\* destination holds nothing else.
C7_TreeReplicated ==
  (run = 1 /\ phase = "done" /\ err = "none" /\ ~opts.hasFilter
     /\ PlainTree /\ DestAbsent)
    => \A p \in RelPaths :
         /\ fs[Dst(p)].type = fs[Src(p)].type
         /\ fs[Dst(p)].data = fs[Src(p)].data
         /\ fs[Dst(p)].mode = fs[Src(p)].mode

\* C7 witness: a read-only directory holding a file and a read-only
\* subdirectory with a file of its own has been replicated.
C7_Witness ==
  /\ run = 1 /\ phase = "done" /\ err = "none" /\ ~opts.hasFilter /\ DestAbsent
  /\ fs[Src(<<>>)] = Dir(365) /\ fs[Src(<<"x">>)] = Dir(365)
  /\ fs[Src(<<"x", "z">>)].type = "file" /\ fs[Src(<<"y">>)].type = "file"
  /\ fs[Dst(<<>>)].mode = 365 /\ fs[Dst(<<"x">>)].mode = 365
  /\ fs[Dst(<<"x", "z">>)].data = 1 /\ fs[Dst(<<"y">>)].data = 1

\* C8: copy(src, dest) followed by copy(src, dest, {overwrite: true}) on an
\* unchanged source completes without error and leaves the destination with
\* the entries, bytes and permission bits it had after the first copy, also
\* when source files or directories lack the owner-write bit.
C8_SecondCopyIdempotent ==
  (run = 2 /\ phase = "done" /\ opts = DefaultOpts)
    => /\ err = "none"
       /\ \A p \in RelPaths : SameEntry(fs[Dst(p)], fs1[Dst(p)])

\* C9: when the source entry is a symbolic link and a destination link
\* exists: if the source target contains the destination target the copy
\* raises SelfCopy, otherwise if the destination target contains the source
\* target it raises OverwriteConflict, and in both cases the destination
\* link is untouched; the destination link is replaced only when neither
\* holds, and then it points at the source target.
C9_LinkOverLink ==
  [][\A p \in RelPaths :
       LET rs == fs[Src(p)].target
           rd == fs[Dst(p)].target
       IN (Dispatches(p) /\ ~Normalise(CallOpts).dereference
             /\ fs[Src(p)].type = "link" /\ fs[Dst(p)].type = "link")
            => /\ isSrcSubdir(rs, rd) =>
                    (err' = "SelfCopy" /\ fs'[Dst(p)] = fs[Dst(p)])
               /\ (~isSrcSubdir(rs, rd) /\ isSrcSubdir(rd, rs)) =>
                    (err' = "OverwriteConflict" /\ fs'[Dst(p)] = fs[Dst(p)])
               /\ fs'[Dst(p)] # fs[Dst(p)] =>
                    (~isSrcSubdir(rs, rd) /\ ~isSrcSubdir(rd, rs))
               /\ (~isSrcSubdir(rs, rd) /\ ~isSrcSubdir(rd, rs) /\ err' = "none") =>
                    fs'[Dst(p)] = Link(rs)]_vars

\* C9 witness: the copy replaced an existing destination link y, whose
\* target was unrelated to the source link's, by a link to the source target.
C9_Witness ==
  /\ phase = "done" /\ err = "none" /\ run = 1
  /\ <<"y">> \in visited
  /\ fs[Src(<<"y">>)] = Link(T2)
  /\ fs0[Dst(<<"y">>)] = Link(T3)
  /\ fs[Dst(<<"y">>)] = Link(T2)

\* the directory that contains the entry at relative path p
Parent(p) == SubSeq(p, 1, Len(p) - 1)

\* the source entry at p as getStats sees it
SrcStat(p) ==
  IF Normalise(CallOpts).dereference THEN StatSync(fs, Src(p)) ELSE LstatSync(fs, Src(p))

\* C20: copying a source directory to an absent destination first creates
\* the destination directory (with the mode mkdir gives it), then processes
\* the children depth-first (a child is dispatched only by the innermost
\* directory loop in progress, its own parent's), and sets the directory's
\* mode to the source's only when no child is left; an existing destination
\* directory is not re-created and its mode never changes.
C20_DirOrder ==
  [][\A p \in RelPaths :
       /\ (Dispatches(p) /\ SrcStat(p).type = "dir" /\ err' = "none")
            => /\ fs[Dst(p)].type = "none" => fs'[Dst(p)] = mkdirSync(fs, Dst(p))[Dst(p)]
               /\ fs[Dst(p)].type # "none" => fs'[Dst(p)] = fs[Dst(p)]
               /\ stack' # <<>>
               /\ Head(stack').dest = Dst(p)
               /\ Head(stack').todo = Children(fs, Src(p))
       /\ (Dispatches(p) /\ p # <<>>)
            => (stack # <<>> /\ Head(stack).src = Src(Parent(p)))
       /\ (fs[Dst(p)].type = "dir" /\ fs'[Dst(p)] # fs[Dst(p)])
            => /\ stack # <<>>
               /\ Head(stack).dest = Dst(p)
               /\ Head(stack).todo = {}
               /\ Head(stack).created
               /\ fs'[Dst(p)] = [fs[Dst(p)] EXCEPT !.mode = SrcStat(p).mode]]_vars

\* C20 witness: a read-only source directory holding a file and a
\* subdirectory with a file has been copied to an absent destination; all
\* four entries were dispatched and the new root has the source's mode.
C20_Witness ==
  /\ phase = "done" /\ run = 1 /\ err = "none"
  /\ fs0[Dst(<<>>)].type = "none"
  /\ visited = RelPaths
  /\ ~HasOwnerWrite(fs[Src(<<>>)].mode)
  /\ fs[Dst(<<>>)].type = "dir"
  /\ fs[Dst(<<>>)].mode = fs[Src(<<>>)].mode
  /\ fs[Dst(<<"x", "z">>)].type = "file"

\* an entry throws in this step
Fails == err = "none" /\ err' # "none"

\* C21: an error raised while copying an entry ends the invocation there:
\* the step that raises it leaves every other destination entry as it was
\* (entries copied before stay, later ones are not created), no loop stays
\* open and no later step changes the file system or the error; a socket or
\* FIFO entry raises UnsupportedEntryType and leaves its destination path
\* as it was.
C21_ErrorIsTerminal ==
  [][/\ Fails =>
          /\ phase' = "done"
          /\ stack' = <<>>
          /\ \A q \in RelPaths : ~Dispatches(q) => fs'[Dst(q)] = fs[Dst(q)]
     /\ err # "none" => (fs' = fs /\ err' = err)
     /\ \A p \in RelPaths :
          (Dispatches(p) /\ SrcStat(p).type \in {"socket", "fifo"})
            => /\ err' = "UnsupportedEntryType"
               /\ fs'[Dst(p)] = fs[Dst(p)]]_vars

\* C21 witness: the copy ended with UnsupportedEntryType at the FIFO y after
\* file x had been copied; x is still at the destination and nothing is at
\* y's destination path.
C21_Witness ==
  /\ phase = "done" /\ run = 1
  /\ err = "UnsupportedEntryType"
  /\ fs[Src(<<"y">>)].type = "fifo"
  /\ <<"x">> \in visited /\ <<"y">> \in visited
  /\ fs0[Dst(<<"x">>)].type = "none"
  /\ fs[Dst(<<"x">>)].type = "file"
  /\ fs[Dst(<<"x">>)].data = fs[Src(<<"x">>)].data
  /\ fs[Dst(<<"y">>)].type = "none"
====
